---- MODULE Spec2Model ----
(***************************************************************************)
(* A model of diskarbitrationd's DADisk object (DADisk.c): the two         *)
(* builders DADiskCreateFromIOMedia and DADiskCreateFromVolumePath, the    *)
(* CFRuntime callbacks (equal, hash, deallocate), DADiskMatch, the         *)
(* serialization cache and the setters.                                    *)
(*                                                                         *)
(* C strings are sequences of non-zero bytes (the terminating NUL is       *)
(* implicit).  A pointer that may be NULL and whose target is a string     *)
(* is either NULL or the string; a CFDataRef that may be NULL is a         *)
(* sequence of length 0 (NULL) or 1 (the data).  A CFDictionary is a       *)
(* function whose DOMAIN is the set of keys present.  A bit mask is the    *)
(* set of the flags that are set in it.                                    *)
(***************************************************************************)
EXTENDS Integers, Sequences, FiniteSets, TLC

VARIABLES
    disks,      \* the live DADisk objects: slot -> struct __DADisk
    refs,       \* this task's references on each I/O Registry object
    iterators,  \* the number of io_iterator_t objects this task holds
    bags,       \* the number of property dictionaries copied out of the registry and not yet released
    last        \* the last call made: its name, arguments, result and what it reported

vars == <<disks, refs, iterators, bags, last>>

NULL == "NULL"

kCFBooleanTrue == "kCFBooleanTrue"

kCFBooleanFalse == "kCFBooleanFalse"

(***************************************************************************)
(* Bounds of the model.                                                    *)
(***************************************************************************)
\* how many things may be wrong with the registry during one DADiskCreateFromIOMedia call
MaxFaults == 2

\* how many keys a criteria dictionary handed to DADiskMatch may hold
MaxCriteria == 2

(***************************************************************************)
(* Program constants.                                                      *)
(***************************************************************************)
___UID_ROOT == 0

___GID_ADMIN == 80

___UID_UNKNOWN == 99

___GID_UNKNOWN == 99

\* 0755
DefaultMode == 493

\* the number of bytes of the id that __DADiskHash hands to CFHashBytes at most
HashBytes == 16

(***************************************************************************)
(* C strings.                                                              *)
(***************************************************************************)
\* "/dev/"
_PATH_DEV == <<47, 100, 101, 118, 47>>

\* the byte at a 1-based offset of a C string: past the end it is the NUL
CharAt(s, i) == IF i <= Len(s) THEN s[i] ELSE 0

strlen(s) == Len(s)

RECURSIVE strcmpFrom(_, _, _)
strcmpFrom(s1, s2, i) ==
    IF CharAt(s1, i) # CharAt(s2, i)
    THEN CharAt(s1, i) - CharAt(s2, i)
    ELSE IF CharAt(s1, i) = 0 THEN 0 ELSE strcmpFrom(s1, s2, i + 1)

strcmp(s1, s2) == strcmpFrom(s1, s2, 1)

MIN(a, b) == IF a < b THEN a ELSE b

(***************************************************************************)
(* CFHashBytes: the ELF hash over the first `length` bytes, in 32 bits.    *)
(* After every step the top four bits of H are clear, so H < 2^28; the     *)
(* step is computed on the low 24 bits and the top nibble apart, which     *)
(* keeps every intermediate value below 2^31.                              *)
(***************************************************************************)
Bit(n, k) == (n \div (2 ^ k)) % 2

\* the exclusive or of two 4-bit values
Xor4(a, b) ==
    LET x(k) == (Bit(a, k) + Bit(b, k)) % 2
    IN  x(0) + 2 * x(1) + 4 * x(2) + 8 * x(3)

\* T1 = (H << 4) + B; T2 = T1 & 0xF0000000; if (T2) T1 ^= (T2 >> 24); T1 &= ~T2; H = T1
ELF_STEP(H, B) ==
    LET low   == (H % (2 ^ 24)) * 16 + B
        carry == low \div (2 ^ 28)
        low28 == low % (2 ^ 28)
        top   == ((H \div (2 ^ 24)) + carry) % 16
        mid   == (low28 \div 16) % 16
    IN  low28 - mid * 16 + Xor4(mid, top) * 16

RECURSIVE ElfFrom(_, _, _, _)
ElfFrom(bytes, length, i, H) ==
    IF i > length THEN H ELSE ElfFrom(bytes, length, i + 1, ELF_STEP(H, bytes[i]))

CFHashBytes(bytes, length) == ElfFrom(bytes, length, 1, 0)

(***************************************************************************)
(* The description dictionary.                                             *)
(***************************************************************************)
CFDictionaryContainsKey(d, k) == k \in DOMAIN d

CFDictionarySetValue(d, k, v) == [x \in DOMAIN d \cup {k} |-> IF x = k THEN v ELSE d[x]]

CFDictionaryRemoveValue(d, k) == [x \in DOMAIN d \ {k} |-> d[x]]

\* every key a description can hold, in the order of the canonical encoding
DescriptionKeys ==
    << "DAAppearanceTime", "DABusName", "DABusPath", "DADeviceGUID", "DADeviceInternal",
       "DADeviceModel", "DADevicePath", "DADeviceProtocol", "DADeviceRevision",
       "DADeviceUnit", "DADeviceVendor", "DADiskID", "DAMediaBSDMajor", "DAMediaBSDMinor",
       "DAMediaBSDName", "DAMediaBSDUnit", "DAMediaBlockSize", "DAMediaContent",
       "DAMediaEjectable", "DAMediaIcon", "DAMediaKind", "DAMediaLeaf", "DAMediaName",
       "DAMediaPath", "DAMediaRemovable", "DAMediaSize", "DAMediaType", "DAMediaWhole",
       "DAMediaWritable", "DAVolumeKind", "DAVolumeMountable", "DAVolumeName",
       "DAVolumeNetwork", "DAVolumePath", "IOPropertyMatch" >>

\* the canonical encoding of a description: its <<key, value>> pairs in key order
RECURSIVE SerializeFrom(_, _)
SerializeFrom(d, i) ==
    IF i > Len(DescriptionKeys) THEN <<>>
    ELSE IF DescriptionKeys[i] \in DOMAIN d
         THEN <<  <<DescriptionKeys[i], d[DescriptionKeys[i]]>>  >> \o SerializeFrom(d, i + 1)
         ELSE SerializeFrom(d, i + 1)

_DASerializeDiskDescription(d) == SerializeFrom(d, 1)

(***************************************************************************)
(* struct __DADisk and __DADiskCreate.                                     *)
(***************************************************************************)
__DADiskCreate(id) ==
    [ _bypath        |-> NULL,
      _claim         |-> NULL,
      _context       |-> NULL,
      _contextRe     |-> NULL,
      _description   |-> [k \in {"DADiskID"} |-> Append(id, 0)],
      _device        |-> NULL,
      _deviceNode    |-> 0,
      _devicePath    |-> <<NULL, NULL>>,
      _deviceUnit    |-> -1,
      _filesystem    |-> NULL,
      _id            |-> id,
      _media         |-> NULL,
      _mode          |-> DefaultMode,
      _options       |-> {},
      _serialization |-> <<>>,
      _state         |-> {},
      _userEGID      |-> ___GID_ADMIN,
      _userEUID      |-> ___UID_ROOT,
      _userRGID      |-> ___GID_ADMIN,
      _userRUID      |-> ___UID_ROOT ]

(***************************************************************************)
(* The I/O Registry as DADiskCreateFromIOMedia sees it during one call.    *)
(* An input `io` is a record:                                              *)
(*   media            the io_service_t handed in                           *)
(*   name             the BSD name of the media (a C string)               *)
(*   faults           what is absent or fails during this call             *)
(*   uninit           what the uninitialized local `services` holds        *)
(*   kind             the most derived IOMedia class of the media          *)
(*   removable        the value of the media's Removable property          *)
(*   location         Physical Interconnect Location, or "absent"          *)
(*   optional         the optional facts that are present                  *)
(*   autodiskmount, ejectUponLogout, ownerUid, ownerMode: the hints        *)
(***************************************************************************)
Media == {"MEDIA"}

\* the parents of a media in the service plane, nearest first
MediaParents == <<"DRIVER", "DEVICE", "CONTROLLER", "BUS">>

\* the parents of the device in the service plane, nearest first
DeviceParents == <<"CONTROLLER", "BUS">>

RegistryObjects == Media \cup {"DRIVER", "DEVICE", "CONTROLLER", "BUS"}

\* the properties of the media whose absence aborts the construction
RequiredMediaKeys ==
    { "BSD Name", "Preferred Block Size", "BSD Major", "BSD Minor", "BSD Unit", "Content",
      "Ejectable", "Leaf", "Removable", "Size", "Whole", "Writable" }

\* registry calls that can return an error status
QueryErrors ==
    { "IORegistryEntryCreateCFProperties(media)", "IORegistryEntryGetName(media)",
      "IORegistryEntryGetPath(media,IOService)", "IORegistryEntryCreateIterator(media)",
      "IORegistryEntryCreateCFProperties(device)", "IORegistryEntryGetPath(device)",
      "IORegistryEntryCreateIterator(device)", "IORegistryEntryGetNameInPlane(bus)",
      "IORegistryEntryGetPath(bus)" }

\* Core Foundation calls that can return NULL or FALSE
ConversionFailures ==
    { "CFStringGetCString(BSD Name)", "__DADiskCreate", "CFURLCreateFromFileSystemRepresentation",
      "UTF8(name)", "MacRoman(name)", "UTF8(path)", "MacRoman(path)", "UTF8(device path)",
      "CFDataCreate(GUID)", "UTF8(bus name)", "UTF8(bus path)", "CFNumberCreate(time)" }

\* facts of the registry that may be absent
AbsentFacts ==
    RequiredMediaKeys \cup
    { "IOMediaIcon", "Type", "IOBlockStorageDevice", "IORegistryEntryGetPath(media,IODeviceTree)" }

FaultPoints == QueryErrors \cup ConversionFailures \cup AbsentFacts

\* getpwuid: the password database
getpwuid(uid) ==
    IF uid = 501 THEN << [pw_uid |-> 501, pw_gid |-> 20] >>
    ELSE IF uid = 0 THEN << [pw_uid |-> 0, pw_gid |-> 0] >>
    ELSE <<>>

\* makedev( major, minor )
makedev(major, minor) == major * (2 ^ 24) + minor

\* OSSwapHostToBigInt64 and CFDataCreate: the 8 bytes of a value below 2^31, most significant first
BigEndian8(n) == [i \in 1..8 |-> IF i <= 4 THEN 0 ELSE (n \div (256 ^ (8 - i))) % 256]

(***************************************************************************)
(* Reference counting of registry objects.                                 *)
(***************************************************************************)
\* IOObjectRetain
IOObjectRetain(r, o) == [r EXCEPT ![o] = @ + 1]

\* IOObjectRelease of a registry object: a name this task holds no reference on is refused
IOObjectRelease(r, o) ==
    IF o \in DOMAIN r /\ r[o] > 0 THEN [r EXCEPT ![o] = @ - 1] ELSE r

\* a mutation of __DADiskDeallocate: the media is not released
__DADiskDeallocate_KeepsMedia(r, disk) == r

\* __DADiskDeallocate, as far as the registry is concerned: the media reference is dropped
__DADiskDeallocate(r, disk) ==
    IF disk._media # NULL THEN IOObjectRelease(r, disk._media) ELSE r

(***************************************************************************)
(* DADiskCreateFromIOMedia, section by section.  The local state `st`:     *)
(*   err         control has jumped to DADiskCreateFromIOMediaErr          *)
(*   disk        <<>> while `disk` is NULL, else << the struct >>          *)
(*   properties  whether `properties` holds a dictionary                   *)
(*   device, bus the locals of the same name (NULL or an object)           *)
(*   refs, iterators, bags: the counts this call has changed so far        *)
(*   errors      the registry calls that have returned an error            *)
(*   usedFailed  the calls made on the output of a call that failed        *)
(***************************************************************************)
Fail(st) == [st EXCEPT !.err = TRUE]

QueryFailed(st, q) == [st EXCEPT !.errors = @ \cup {q}]

Describe(st, key, value) ==
    [st EXCEPT !.disk[1]._description = CFDictionarySetValue(@, key, value)]

\* object = CFDictionaryGetValue( properties, key ); if NULL goto Err; CFDictionarySetValue( description, dkey, object )
RequireProperty(st, io, key, dkey, value) ==
    IF key \in io.faults THEN Fail(st) ELSE Describe(st, dkey, value)

ObtainMediaProperties(st, io) ==
    IF "IORegistryEntryCreateCFProperties(media)" \in io.faults
    THEN Fail(QueryFailed(st, "IORegistryEntryCreateCFProperties(media)"))
    ELSE [st EXCEPT !.properties = TRUE, !.bags = @ + 1]

CreateDiskObject(st, io) ==
    LET path == _PATH_DEV \o io.name
        raw  == _PATH_DEV \o <<114>> \o io.name
        disk == __DADiskCreate(path)
    IN  IF "BSD Name" \in io.faults THEN Fail(st)
        ELSE IF "CFStringGetCString(BSD Name)" \in io.faults THEN Fail(st)
        ELSE IF "__DADiskCreate" \in io.faults THEN Fail(st)
        ELSE IF "CFURLCreateFromFileSystemRepresentation" \in io.faults
             THEN Fail([st EXCEPT !.disk = <<disk>>])
        ELSE [st EXCEPT
                !.disk = << [disk EXCEPT
                               !._device = path,
                               !._devicePath = <<path, raw>>,
                               !._media = io.media,
                               !._description =
                                   CFDictionarySetValue(@, "DAVolumeNetwork", kCFBooleanFalse)] >>,
                !.refs = IOObjectRetain(@, io.media)]

MediaBlockSize(st, io) ==
    RequireProperty(st, io, "Preferred Block Size", "DAMediaBlockSize", 512)

MediaBSDName(st, io) == RequireProperty(st, io, "BSD Name", "DAMediaBSDName", io.name)

MediaBSDMajor(st, io) == RequireProperty(st, io, "BSD Major", "DAMediaBSDMajor", 14)

MediaBSDMinor(st, io) ==
    IF "BSD Minor" \in io.faults THEN Fail(st)
    ELSE [Describe(st, "DAMediaBSDMinor", 2) EXCEPT !.disk[1]._deviceNode = makedev(14, 2)]

MediaBSDUnit(st, io) ==
    IF "BSD Unit" \in io.faults THEN Fail(st)
    ELSE [Describe(st, "DAMediaBSDUnit", 2) EXCEPT !.disk[1]._deviceUnit = 2]

MediaContent(st, io) == RequireProperty(st, io, "Content", "DAMediaContent", "Apple_HFS")

MediaEjectable(st, io) ==
    RequireProperty(st, io, "Ejectable", "DAMediaEjectable", kCFBooleanFalse)

\* IORegistryEntrySearchCFProperty( media, ..., kIOMediaIconKey, ... )
MediaIcon(st, io) == RequireProperty(st, io, "IOMediaIcon", "DAMediaIcon", "Internal.icns")

MediaKind(st, io) ==
    IF io.kind = "IODVDMedia"
    THEN RequireProperty(Describe(st, "DAMediaKind", "IODVDMedia"), io, "Type", "DAMediaType", "DVD-ROM")
    ELSE IF io.kind = "IOCDMedia"
    THEN RequireProperty(Describe(st, "DAMediaKind", "IOCDMedia"), io, "Type", "DAMediaType", "CD-ROM")
    ELSE Describe(st, "DAMediaKind", "IOMedia")

MediaLeaf(st, io) == RequireProperty(st, io, "Leaf", "DAMediaLeaf", kCFBooleanTrue)

MediaName(st, io) ==
    IF "IORegistryEntryGetName(media)" \in io.faults
    THEN Fail(QueryFailed(st, "IORegistryEntryGetName(media)"))
    ELSE IF "UTF8(name)" \notin io.faults THEN Describe(st, "DAMediaName", "Untitled (UTF-8)")
    ELSE IF "MacRoman(name)" \notin io.faults THEN Describe(st, "DAMediaName", "Untitled (MacRoman)")
    ELSE Fail(st)

\* "IOService:/"
IOServicePlane == <<73, 79, 83, 101, 114, 118, 105, 99, 101, 58, 47>>

\* "IODeviceTree:/"
IODeviceTreePlane == <<73, 79, 68, 101, 118, 105, 99, 101, 84, 114, 101, 101, 58, 47>>

\* IORegistryEntryGetPath( media, plane, path ): the path of the media in a plane
IORegistryEntryGetPath(io, plane) == plane \o io.name

\* the path of the media: in the device tree plane, else in the service plane
MediaRegistryPath(io) ==
    IF "IORegistryEntryGetPath(media,IODeviceTree)" \notin io.faults
    THEN IORegistryEntryGetPath(io, IODeviceTreePlane)
    ELSE IORegistryEntryGetPath(io, IOServicePlane)

MediaPath(st, io) ==
    IF /\ "IORegistryEntryGetPath(media,IODeviceTree)" \in io.faults
       /\ "IORegistryEntryGetPath(media,IOService)" \in io.faults
    THEN Fail(QueryFailed(st, "IORegistryEntryGetPath(media,IOService)"))
    ELSE IF "UTF8(path)" \in io.faults /\ "MacRoman(path)" \in io.faults THEN Fail(st)
    ELSE Describe(st, "DAMediaPath", MediaRegistryPath(io))

MediaRemovable(st, io) ==
    RequireProperty(st, io, "Removable", "DAMediaRemovable", io.removable)

MediaSize(st, io) == RequireProperty(st, io, "Size", "DAMediaSize", 10000)

MediaWhole(st, io) == RequireProperty(st, io, "Whole", "DAMediaWhole", kCFBooleanTrue)

MediaWritable(st, io) == RequireProperty(st, io, "Writable", "DAMediaWritable", kCFBooleanTrue)

\* CFRelease( properties ); properties = NULL;
ReleaseProperties(st, io) == [st EXCEPT !.properties = FALSE, !.bags = @ - 1]

(***************************************************************************)
(* Walking the parents of an entry.  `services` is the iterator handle:    *)
(* "ITERATOR" when IORegistryEntryCreateIterator made one, else whatever   *)
(* the variable held before the call.  IOIteratorNext on a handle that is  *)
(* no iterator returns NULL.  Every object IOIteratorNext returns carries  *)
(* a reference; the loop releases the ones it does not keep.               *)
(***************************************************************************)
RECURSIVE IterateParents(_, _, _, _)
IterateParents(r, chain, i, wanted) ==
    IF i > Len(chain) THEN [refs |-> r, found |-> NULL]
    ELSE IF chain[i] \in wanted
         THEN [refs |-> IOObjectRetain(r, chain[i]), found |-> chain[i]]
         ELSE IterateParents(IOObjectRelease(IOObjectRetain(r, chain[i]), chain[i]), chain, i + 1, wanted)

\* IOObjectRelease( services )
ReleaseServices(st, services) ==
    IF services = "ITERATOR" THEN [st EXCEPT !.iterators = @ - 1]
    ELSE [st EXCEPT !.refs = IOObjectRelease(@, services)]

\* status = IORegistryEntryCreateIterator( entry, ..., &services ); the status is not looked at
WalkParents(st, io, query, before, chain, wanted) ==
    LET failed   == query \in io.faults
        services == IF failed THEN before ELSE "ITERATOR"
        opened   == IF failed
                    THEN [QueryFailed(st, query) EXCEPT
                            !.usedFailed = @ \cup {"IOIteratorNext", "IOObjectRelease"}]
                    ELSE [st EXCEPT !.iterators = @ + 1]
        walk     == IF failed THEN [refs |-> opened.refs, found |-> NULL]
                    ELSE IterateParents(opened.refs, chain, 1, wanted)
    IN  [st |-> ReleaseServices([opened EXCEPT !.refs = walk.refs], services),
         found |-> walk.found]

\* the first parent of the media that is an IOBlockStorageDevice
ObtainDevice(st, io) ==
    LET walk == WalkParents(st, io, "IORegistryEntryCreateIterator(media)", io.uninit, MediaParents,
                            IF "IOBlockStorageDevice" \in io.faults THEN {} ELSE {"DEVICE"})
    IN  IF walk.found = NULL THEN Fail(walk.st) ELSE [walk.st EXCEPT !.device = walk.found]

ObtainDeviceProperties(st, io) ==
    IF "IORegistryEntryCreateCFProperties(device)" \in io.faults
    THEN Fail(QueryFailed(st, "IORegistryEntryCreateCFProperties(device)"))
    ELSE [st EXCEPT !.properties = TRUE, !.bags = @ + 1]

\* kIOPropertyProtocolCharacteristicsKey: the interconnect location and type
DeviceProtocol(st, io) ==
    LET s1 == IF io.location = "Internal" THEN Describe(st, "DADeviceInternal", kCFBooleanTrue)
              ELSE IF io.location = "External" THEN Describe(st, "DADeviceInternal", kCFBooleanFalse)
              ELSE st
    IN  IF "Protocol Characteristics" \notin io.optional THEN st
        ELSE IF "Physical Interconnect" \in io.optional THEN Describe(s1, "DADeviceProtocol", "ATA")
        ELSE s1

\* kIOPropertyDeviceCharacteristicsKey: the product name, revision and vendor
DeviceModel(st, io) ==
    LET s1 == IF "Product Name" \in io.optional THEN Describe(st, "DADeviceModel", "Model") ELSE st
        s2 == IF "Product Revision Level" \in io.optional
              THEN Describe(s1, "DADeviceRevision", "Revision") ELSE s1
        s3 == IF "Vendor Name" \in io.optional THEN Describe(s2, "DADeviceVendor", "Vendor") ELSE s2
    IN  IF "Device Characteristics" \notin io.optional THEN st ELSE s3

DevicePath(st, io) ==
    IF "IORegistryEntryGetPath(device)" \in io.faults
    THEN Fail(QueryFailed(st, "IORegistryEntryGetPath(device)"))
    ELSE IF "UTF8(device path)" \in io.faults THEN Fail(st)
    ELSE Describe(st, "DADevicePath", IOServicePlane \o <<100, 101, 118>>)

DeviceUnit(st, io) ==
    IF "IOUnit" \in io.optional THEN Describe(st, "DADeviceUnit", 1) ELSE st

DeviceGUID(st, io) ==
    IF "GUID" \notin io.optional THEN st
    ELSE IF "CFDataCreate(GUID)" \in io.faults THEN Fail(st)
    ELSE Describe(st, "DADeviceGUID", BigEndian8(66051))

\* a mutation of ObtainBus: a device without a bus is refused, as one without a device is
ObtainBus_Required(st, io) ==
    LET walk == WalkParents(st, io, "IORegistryEntryCreateIterator(device)", "INVALID", DeviceParents,
                            IF "bus" \in io.optional THEN {"BUS"} ELSE {})
        held == [walk.st EXCEPT !.bus = walk.found]
    IN  IF walk.found = NULL THEN Fail(walk.st)
        ELSE [Describe(Describe(held, "DABusName", "pci"), "DABusPath", IODeviceTreePlane \o <<112, 99, 105>>) EXCEPT
                !.refs = IOObjectRelease(@, held.bus),
                !.bus = NULL]

\* the first parent of the device that is in the device tree plane, and its name and path
ObtainBus(st, io) ==
    LET walk == WalkParents(st, io, "IORegistryEntryCreateIterator(device)", "INVALID", DeviceParents,
                            IF "bus" \in io.optional THEN {"BUS"} ELSE {})
        held == [walk.st EXCEPT !.bus = walk.found]
    IN  IF walk.found = NULL THEN walk.st
        ELSE IF "IORegistryEntryGetNameInPlane(bus)" \in io.faults
             THEN Fail(QueryFailed(held, "IORegistryEntryGetNameInPlane(bus)"))
        ELSE IF "UTF8(bus name)" \in io.faults THEN Fail(held)
        ELSE IF "IORegistryEntryGetPath(bus)" \in io.faults
             THEN Fail(QueryFailed(held, "IORegistryEntryGetPath(bus)"))
        ELSE IF "UTF8(bus path)" \in io.faults THEN Fail(held)
        ELSE [Describe(Describe(held, "DABusName", "pci"), "DABusPath", IODeviceTreePlane \o <<112, 99, 105>>) EXCEPT
                !.refs = IOObjectRelease(@, held.bus),
                !.bus = NULL]

AppearanceTime(st, io) ==
    IF "CFNumberCreate(time)" \in io.faults THEN Fail(st)
    ELSE Describe(st, "DAAppearanceTime", "now")

\* a mutation of MountAutomatic: only a hint that is true is told from an absent one
MountAutomatic_FalseIgnored(st, io) ==
    IF io.autodiskmount = kCFBooleanTrue
    THEN [st EXCEPT !.disk[1]._options =
                @ \cup {"kDADiskOptionMountAutomatic", "kDADiskOptionMountAutomaticNoDefer"}]
    ELSE [st EXCEPT !.disk[1]._options = @ \cup {"kDADiskOptionMountAutomatic"}]

\* "autodiskmount", searched from the media upward
MountAutomatic(st, io) ==
    IF io.autodiskmount = "absent"
    THEN [st EXCEPT !.disk[1]._options = @ \cup {"kDADiskOptionMountAutomatic"}]
    ELSE IF io.autodiskmount = kCFBooleanTrue
    THEN [st EXCEPT !.disk[1]._options =
                @ \cup {"kDADiskOptionMountAutomatic", "kDADiskOptionMountAutomaticNoDefer"}]
    ELSE st

\* "eject-upon-logout", searched from the device upward
EjectUponLogout(st, io) ==
    IF io.ejectUponLogout = kCFBooleanTrue
    THEN [st EXCEPT !.disk[1]._options = @ \cup {"kDADiskOptionEjectUponLogout"}]
    ELSE st

\* a mutation of OwnerDefault: the second test is nested in the first
OwnerDefault_Nested(st, io) ==
    LET d == st.disk[1]._description
    IN  IF /\ "DAMediaRemovable" \in DOMAIN d /\ d["DAMediaRemovable"] = kCFBooleanTrue
           /\ "DADeviceInternal" \in DOMAIN d /\ d["DADeviceInternal"] = kCFBooleanFalse
        THEN [st EXCEPT !.disk[1]._userRGID = ___GID_UNKNOWN,
                        !.disk[1]._userRUID = ___UID_UNKNOWN]
        ELSE st

\* the real user and group of removable media and of external devices
OwnerDefault(st, io) ==
    LET d  == st.disk[1]._description
        s1 == IF "DAMediaRemovable" \in DOMAIN d /\ d["DAMediaRemovable"] = kCFBooleanTrue
              THEN [st EXCEPT !.disk[1]._userRGID = ___GID_UNKNOWN,
                              !.disk[1]._userRUID = ___UID_UNKNOWN]
              ELSE st
    IN  IF "DADeviceInternal" \in DOMAIN d /\ d["DADeviceInternal"] = kCFBooleanFalse
        THEN [s1 EXCEPT !.disk[1]._userRGID = ___GID_UNKNOWN,
                        !.disk[1]._userRUID = ___UID_UNKNOWN]
        ELSE s1

\* a mutation of OwnerHint: only the effective user and group are written
OwnerHint_EffectiveOnly(st, io) ==
    IF io.ownerUid = <<>> THEN st
    ELSE LET user == getpwuid(io.ownerUid[1])
         IN  IF user = <<>> THEN st
             ELSE [st EXCEPT !.disk[1]._userEGID = user[1].pw_gid,
                             !.disk[1]._userEUID = user[1].pw_uid]

\* "owner-uid", searched from the device upward: <<>> when absent, else << uid >>
OwnerHint(st, io) ==
    IF io.ownerUid = <<>> THEN st
    ELSE LET user == getpwuid(io.ownerUid[1])
         IN  IF user = <<>> THEN st
             ELSE [st EXCEPT !.disk[1]._userEGID = user[1].pw_gid,
                             !.disk[1]._userEUID = user[1].pw_uid,
                             !.disk[1]._userRGID = user[1].pw_gid,
                             !.disk[1]._userRUID = user[1].pw_uid]

\* "owner-mode", searched from the device upward: <<>> when absent, else << mode >>
OwnerMode(st, io) ==
    IF io.ownerMode = <<>> THEN st ELSE [st EXCEPT !.disk[1]._mode = io.ownerMode[1]]

\* IOObjectRelease( device ); return disk;
ReleaseDevice(st, io) == [st EXCEPT !.refs = IOObjectRelease(@, st.device), !.device = NULL]

\* the sections in program order
Sections ==
    << "ObtainMediaProperties", "CreateDiskObject", "MediaBlockSize", "MediaBSDName",
       "MediaBSDMajor", "MediaBSDMinor", "MediaBSDUnit", "MediaContent", "MediaEjectable",
       "MediaIcon", "MediaKind", "MediaLeaf", "MediaName", "MediaPath", "MediaRemovable",
       "MediaSize", "MediaWhole", "MediaWritable", "ReleaseProperties", "ObtainDevice",
       "ObtainDeviceProperties", "DeviceProtocol", "DeviceModel", "DevicePath", "DeviceUnit",
       "DeviceGUID", "ReleaseProperties", "ObtainBus", "AppearanceTime", "MountAutomatic",
       "EjectUponLogout", "OwnerDefault", "OwnerHint", "OwnerMode", "ReleaseDevice" >>

Section(name, st, io) ==
    CASE name = "ObtainMediaProperties"  -> ObtainMediaProperties(st, io)
      [] name = "CreateDiskObject"       -> CreateDiskObject(st, io)
      [] name = "MediaBlockSize"         -> MediaBlockSize(st, io)
      [] name = "MediaBSDName"           -> MediaBSDName(st, io)
      [] name = "MediaBSDMajor"          -> MediaBSDMajor(st, io)
      [] name = "MediaBSDMinor"          -> MediaBSDMinor(st, io)
      [] name = "MediaBSDUnit"           -> MediaBSDUnit(st, io)
      [] name = "MediaContent"           -> MediaContent(st, io)
      [] name = "MediaEjectable"         -> MediaEjectable(st, io)
      [] name = "MediaIcon"              -> MediaIcon(st, io)
      [] name = "MediaKind"              -> MediaKind(st, io)
      [] name = "MediaLeaf"              -> MediaLeaf(st, io)
      [] name = "MediaName"              -> MediaName(st, io)
      [] name = "MediaPath"              -> MediaPath(st, io)
      [] name = "MediaRemovable"         -> MediaRemovable(st, io)
      [] name = "MediaSize"              -> MediaSize(st, io)
      [] name = "MediaWhole"             -> MediaWhole(st, io)
      [] name = "MediaWritable"          -> MediaWritable(st, io)
      [] name = "ReleaseProperties"      -> ReleaseProperties(st, io)
      [] name = "ObtainDevice"           -> ObtainDevice(st, io)
      [] name = "ObtainDeviceProperties" -> ObtainDeviceProperties(st, io)
      [] name = "DeviceProtocol"         -> DeviceProtocol(st, io)
      [] name = "DeviceModel"            -> DeviceModel(st, io)
      [] name = "DevicePath"             -> DevicePath(st, io)
      [] name = "DeviceUnit"             -> DeviceUnit(st, io)
      [] name = "DeviceGUID"             -> DeviceGUID(st, io)
      [] name = "ObtainBus"              -> ObtainBus(st, io)
      [] name = "AppearanceTime"         -> AppearanceTime(st, io)
      [] name = "MountAutomatic"         -> MountAutomatic(st, io)
      [] name = "EjectUponLogout"        -> EjectUponLogout(st, io)
      [] name = "OwnerDefault"           -> OwnerDefault(st, io)
      [] name = "OwnerHint"              -> OwnerHint(st, io)
      [] name = "OwnerMode"              -> OwnerMode(st, io)
      [] name = "ReleaseDevice"          -> ReleaseDevice(st, io)

\* run the sections from the i-th on, until one jumps to DADiskCreateFromIOMediaErr
RECURSIVE RunSections(_, _, _)
RunSections(st, io, i) ==
    IF st.err \/ i > Len(Sections) THEN st
    ELSE RunSections(Section(Sections[i], st, io), io, i + 1)

\* DALogError( "unable to create disk, id = %s.", disk ? DADiskGetID( disk ) : NULL ),
\* made only when the path of the media in the service plane can be read:
\* <<>> when nothing is logged, else << the record logged >>, whose id is <<>> for NULL
DADiskCreateFromIOMediaLog(st, io) ==
    IF "IORegistryEntryGetPath(media,IOService)" \in io.faults THEN <<>>
    ELSE << [message |-> "unable to create disk",
             id      |-> IF st.disk = <<>> THEN <<>> ELSE <<st.disk[1]._id>>] >>

\* a mutation of DADiskCreateFromIOMediaErr: the device is not released
DADiskCreateFromIOMediaErr_KeepsDevice(st, io) ==
    LET r1 == IF st.bus # NULL THEN IOObjectRelease(st.refs, st.bus) ELSE st.refs
        r3 == IF st.disk # <<>> THEN __DADiskDeallocate(r1, st.disk[1]) ELSE r1
    IN  [st EXCEPT !.refs = r3,
                   !.bus = NULL,
                   !.device = NULL,
                   !.disk = <<>>,
                   !.properties = FALSE,
                   !.bags = IF st.properties THEN @ - 1 ELSE @,
                   !.log = DADiskCreateFromIOMediaLog(st, io)]

\* the label DADiskCreateFromIOMediaErr: report, release what is held, return NULL
DADiskCreateFromIOMediaErr(st, io) ==
    LET r1 == IF st.bus # NULL THEN IOObjectRelease(st.refs, st.bus) ELSE st.refs
        r2 == IF st.device # NULL THEN IOObjectRelease(r1, st.device) ELSE r1
        r3 == IF st.disk # <<>> THEN __DADiskDeallocate(r2, st.disk[1]) ELSE r2
    IN  [st EXCEPT !.refs = r3,
                   !.bus = NULL,
                   !.device = NULL,
                   !.disk = <<>>,
                   !.properties = FALSE,
                   !.bags = IF st.properties THEN @ - 1 ELSE @,
                   !.log = DADiskCreateFromIOMediaLog(st, io)]

\* the whole call, from the counts `r`, `its`, `bgs` the task has before it
DADiskCreateFromIOMediaRun(r, its, bgs, io) ==
    LET st0 == [ err |-> FALSE, disk |-> <<>>, properties |-> FALSE, device |-> NULL, bus |-> NULL,
                 refs |-> r, iterators |-> its, bags |-> bgs, errors |-> {}, usedFailed |-> {},
                 log |-> <<>> ]
        end == RunSections(st0, io, 1)
    IN  IF end.err THEN DADiskCreateFromIOMediaErr(end, io) ELSE end

(***************************************************************************)
(* DADiskCreateFromVolumePath.  An input `v` is a record:                  *)
(*   path        the CFURL handed in, or NULL                              *)
(*   fsrep       whether ___CFURLCopyFileSystemRepresentation succeeds     *)
(*   statfs      whether ___statfs succeeds                                *)
(*   mntonname   f_mntonname, a C string                                   *)
(*   owner       f_owner                                                   *)
(*   local       whether f_flags has MNT_LOCAL                             *)
(*   create      whether __DADiskCreate returns an object                  *)
(* The result: the disk (<<>> for NULL), the path buffers still allocated  *)
(* and what was logged.                                                    *)
(***************************************************************************)
StagedStates ==
    { "kDADiskStateStagedProbe", "kDADiskStateStagedPeek", "kDADiskStateStagedRepair",
      "kDADiskStateStagedApprove", "kDADiskStateStagedAuthorize", "kDADiskStateStagedMount" }

\* a mutation of VolumeDisk: the owner of the mount becomes the effective user only
VolumeDisk_EffectiveOnly(v) ==
    LET d0   == __DADiskCreate(v.mntonname)
        d1   == [d0 EXCEPT !._bypath = v.path,
                           !._description =
                               CFDictionarySetValue(
                                   CFDictionarySetValue(
                                       CFDictionarySetValue(@, "DAVolumePath", v.path),
                                       "DAVolumeMountable", kCFBooleanTrue),
                                   "DAVolumeNetwork",
                                   IF v.local THEN kCFBooleanFalse ELSE kCFBooleanTrue),
                           !._state = @ \cup StagedStates]
        user == getpwuid(v.owner)
    IN  IF user = <<>> THEN d1
        ELSE [d1 EXCEPT !._userEGID = user[1].pw_gid,
                        !._userEUID = user[1].pw_uid]

VolumeDisk(v) ==
    LET d0   == __DADiskCreate(v.mntonname)
        d1   == [d0 EXCEPT !._bypath = v.path,
                           !._description =
                               CFDictionarySetValue(
                                   CFDictionarySetValue(
                                       CFDictionarySetValue(@, "DAVolumePath", v.path),
                                       "DAVolumeMountable", kCFBooleanTrue),
                                   "DAVolumeNetwork",
                                   IF v.local THEN kCFBooleanFalse ELSE kCFBooleanTrue),
                           !._state = @ \cup StagedStates]
        user == getpwuid(v.owner)
    IN  IF user = <<>> THEN d1
        ELSE [d1 EXCEPT !._userEGID = user[1].pw_gid,
                        !._userEUID = user[1].pw_uid,
                        !._userRGID = user[1].pw_gid,
                        !._userRUID = user[1].pw_uid]

\* a mutation of DADiskCreateFromVolumePathRun: the buffer is freed where the statistics are had
DADiskCreateFromVolumePathRun_FreeWhenMounted(v) ==
    IF v.path = NULL THEN [disk |-> <<>>, buffers |-> 0, log |-> <<>>]
    ELSE IF ~v.fsrep THEN [disk |-> <<>>, buffers |-> 0, log |-> <<>>]
    ELSE IF ~v.statfs THEN [disk |-> <<>>, buffers |-> 1, log |-> <<>>]
    ELSE [disk |-> IF v.create THEN <<VolumeDisk(v)>> ELSE <<>>, buffers |-> 0, log |-> <<>>]

\* free( _path )
VolumePathFree(out) == [out EXCEPT !.buffers = @ - 1]

DADiskCreateFromVolumePathRun(v) ==
    IF v.path = NULL THEN [disk |-> <<>>, buffers |-> 0, log |-> <<>>]
    ELSE IF ~v.fsrep THEN [disk |-> <<>>, buffers |-> 0, log |-> <<>>]
    ELSE VolumePathFree([disk    |-> IF v.statfs /\ v.create THEN <<VolumeDisk(v)>> ELSE <<>>,
                         buffers |-> 1,
                         log     |-> <<>>])

(***************************************************************************)
(* The CFRuntime callbacks.                                                *)
(***************************************************************************)
\* strncmp( s1, s2, n ) == 0
SamePrefix(s1, s2, n) == \A i \in 1..n : CharAt(s1, i) = CharAt(s2, i)

\* a mutation of __DADiskEqual: only the bytes that are hashed are compared
__DADiskEqual_HashedBytes(disk1, disk2) == SamePrefix(disk1._id, disk2._id, HashBytes)

__DADiskEqual(disk1, disk2) == strcmp(disk1._id, disk2._id) = 0

\* a mutation of __DADiskHash: the whole id is hashed
__DADiskHash_WholeId(disk) == CFHashBytes(disk._id, strlen(disk._id))

__DADiskHash(disk) == CFHashBytes(disk._id, MIN(strlen(disk._id), HashBytes))

(***************************************************************************)
(* DADiskMatch.  The registry matches a media against a property table;    *)
(* a NULL table (<<>>) or a NULL media is refused and leaves `match` FALSE.*)
(* The context of the applier: the disk pointer (<<>> once it is NULL) and *)
(* the tables the registry has been asked about.                           *)
(***************************************************************************)
\* the property tables the registry matches the media against
RegistryMatching(media) == IF media = "MEDIA" THEN {"IOMedia: Whole = Yes"} ELSE {}

IOServiceMatchPropertyTable(media, table) ==
    /\ media # NULL
    /\ table # <<>>
    /\ table[1] \in RegistryMatching(media)

CFDictionaryGetValue(d, k) == IF k \in DOMAIN d THEN <<d[k]>> ELSE <<>>

\* a mutation of __DADiskMatch: a key the description lacks does not clear the context
__DADiskMatch_AbsentPasses(key, value, context) ==
    IF context.disk = <<>> THEN context
    ELSE LET disk    == context.disk[1]
             compare == CFDictionaryGetValue(disk._description, key)
         IN  IF key = "IOPropertyMatch"
             THEN [ disk  |-> IF IOServiceMatchPropertyTable(disk._media, compare)
                              THEN context.disk ELSE <<>>,
                    asked |-> Append(context.asked, compare) ]
             ELSE IF compare # <<>> /\ value # compare[1]
                  THEN [context EXCEPT !.disk = <<>>]
                  ELSE context

__DADiskMatch(key, value, context) ==
    IF context.disk = <<>> THEN context
    ELSE LET disk    == context.disk[1]
             compare == CFDictionaryGetValue(disk._description, key)
         IN  IF key = "IOPropertyMatch"
             THEN [ disk  |-> IF IOServiceMatchPropertyTable(disk._media, compare)
                              THEN context.disk ELSE <<>>,
                    asked |-> Append(context.asked, compare) ]
             ELSE IF compare = <<>> \/ value # compare[1]
                  THEN [context EXCEPT !.disk = <<>>]
                  ELSE context

\* CFDictionaryApplyFunction( match, __DADiskMatch, &disk ), the keys visited in `order`
RECURSIVE ApplyMatch(_, _, _, _)
ApplyMatch(match, order, i, context) ==
    IF i > Len(order) THEN context
    ELSE ApplyMatch(match, order, i + 1, __DADiskMatch(order[i], match[order[i]], context))

DADiskMatch(disk, match, order) ==
    LET end == ApplyMatch(match, order, 1, [disk |-> <<disk>>, asked |-> <<>>])
    IN  [result |-> end.disk # <<>>, asked |-> end.asked]

(***************************************************************************)
(* The serialization cache and the setters, as functions of the struct.    *)
(***************************************************************************)
DADiskGetSerialization(disk) ==
    IF disk._serialization = <<>>
    THEN [disk EXCEPT !._serialization = << _DASerializeDiskDescription(disk._description) >>]
    ELSE disk

\* a mutation of DADiskSetDescription: the cached serialization is kept
DADiskSetDescription_KeepsCache(disk, description, value) ==
    [disk EXCEPT
        !._description = IF value # <<>>
                         THEN CFDictionarySetValue(@, description, value[1])
                         ELSE CFDictionaryRemoveValue(@, description)]

\* `value` is <<>> for NULL, else << the value >>
DADiskSetDescription(disk, description, value) ==
    [disk EXCEPT
        !._description = IF value # <<>>
                         THEN CFDictionarySetValue(@, description, value[1])
                         ELSE CFDictionaryRemoveValue(@, description),
        !._serialization = <<>>]

\* a mutation of DADiskSetBypath: the disk is renamed as well
DADiskSetBypath_Renames(disk, bypath) == [disk EXCEPT !._bypath = bypath, !._id = _PATH_DEV]

DADiskSetBypath(disk, bypath) == [disk EXCEPT !._bypath = bypath]

\* a mutation of DADiskSetClaim: the cached serialization is dropped
DADiskSetClaim_DropsCache(disk, claim) == [disk EXCEPT !._claim = claim, !._serialization = <<>>]

DADiskSetClaim(disk, claim) == [disk EXCEPT !._claim = claim]

DADiskSetContext(disk, context) == [disk EXCEPT !._context = context]

DADiskSetContextRe(disk, context) == [disk EXCEPT !._contextRe = context]

DADiskSetFileSystem(disk, filesystem) == [disk EXCEPT !._filesystem = filesystem]

\* a mutation of DADiskSetOptions: the mask is applied to the state word
DADiskSetOptions_WritesState(disk, options, value) ==
    [disk EXCEPT !._state = (@ \ options) \cup (IF value THEN options ELSE {})]

DADiskSetOptions(disk, options, value) ==
    [disk EXCEPT !._options = (@ \ options) \cup (IF value THEN options ELSE {})]

DADiskSetOption(disk, option, value) == DADiskSetOptions(disk, {option}, value)

\* a mutation of DADiskSetState: clearing clears the whole word
DADiskSetState_ClearsAll(disk, state, value) ==
    [disk EXCEPT !._state = IF value THEN @ \cup state ELSE {}]

DADiskSetState(disk, state, value) ==
    [disk EXCEPT !._state = (@ \ state) \cup (IF value THEN state ELSE {})]

DADiskSetUserEGID(disk, userGID) == [disk EXCEPT !._userEGID = userGID]

\* a mutation of DADiskSetUserEUID: the real user follows the effective one
DADiskSetUserEUID_WritesReal(disk, userUID) ==
    [disk EXCEPT !._userEUID = userUID, !._userRUID = userUID]

DADiskSetUserEUID(disk, userUID) == [disk EXCEPT !._userEUID = userUID]

(***************************************************************************)
(* The inputs the model draws.                                             *)
(***************************************************************************)
\* "disk0", "disk2"
HardwareNames == { <<100, 105, 115, 107, 48>>, <<100, 105, 115, 107, 50>> }

\* "/Volumes/Backup-"
BackupPrefix == <<47, 86, 111, 108, 117, 109, 101, 115, 47, 66, 97, 99, 107, 117, 112, 45>>

\* "/", "/Volumes/Backup-", "/Volumes/Backup-A", "/Volumes/Backup-B"
MountNames == { <<47>>, BackupPrefix, BackupPrefix \o <<65>>, BackupPrefix \o <<66>> }

MediaKinds == {"IODVDMedia", "IOCDMedia", "IOMedia"}

OptionalFacts ==
    { "Protocol Characteristics", "Physical Interconnect", "Device Characteristics",
      "Product Name", "Product Revision Level", "Vendor Name", "IOUnit", "GUID", "bus" }

\* what the uninitialized `services` may hold: no port of this task, or the media's
Uninitialized == {"INVALID"} \cup Media

RECURSIVE FaultSets(_)
FaultSets(n) ==
    IF n = 0 THEN {{}}
    ELSE LET smaller == FaultSets(n - 1)
         IN  smaller \cup {f \cup {x} : f \in smaller, x \in FaultPoints}

\* a fixed internal hard disk with every optional fact and no hint
BaseIO ==
    [ media |-> "MEDIA", name |-> <<100, 105, 115, 107, 50>>, faults |-> {}, uninit |-> "INVALID",
      kind |-> "IOMedia", removable |-> kCFBooleanFalse, location |-> "Internal",
      optional |-> OptionalFacts, autodiskmount |-> "absent", ejectUponLogout |-> "absent",
      ownerUid |-> <<>>, ownerMode |-> <<>> ]

\* what `services` holds at first is told only where the call that writes it fails
FaultInputs ==
    { io \in { [BaseIO EXCEPT !.faults = f, !.uninit = u, !.kind = k] :
                 f \in FaultSets(MaxFaults), u \in Uninitialized, k \in MediaKinds } :
        io.uninit = "INVALID" \/ "IORegistryEntryCreateIterator(media)" \in io.faults }

OwnerInputs ==
    { [BaseIO EXCEPT !.removable = r, !.location = l, !.optional = o, !.ownerUid = u, !.ownerMode = m] :
        r \in {kCFBooleanTrue, kCFBooleanFalse},
        l \in {"Internal", "External", "File", "absent"},
        o \in {OptionalFacts, OptionalFacts \ {"Protocol Characteristics"}},
        u \in {<<>>, <<0>>, <<501>>, <<4242>>},
        m \in {<<>>, <<420>>} }

HintInputs ==
    { [BaseIO EXCEPT !.autodiskmount = a, !.ejectUponLogout = e] :
        a \in {"absent", kCFBooleanTrue, kCFBooleanFalse},
        e \in {"absent", kCFBooleanTrue, kCFBooleanFalse} }

OptionalInputs == { [BaseIO EXCEPT !.optional = o] : o \in SUBSET OptionalFacts }

NameInputs ==
    { [BaseIO EXCEPT !.name = n, !.removable = r] :
        n \in HardwareNames, r \in {kCFBooleanTrue, kCFBooleanFalse} }

BaseVolume ==
    [ path |-> "file:///Volumes/Backup-A/", fsrep |-> TRUE, statfs |-> TRUE,
      mntonname |-> BackupPrefix \o <<65>>, owner |-> 501, local |-> TRUE, create |-> TRUE ]

VolumeInputs ==
    { [BaseVolume EXCEPT !.path = p, !.fsrep = f, !.statfs = s, !.owner = o, !.local = l,
                         !.create = c, !.mntonname = n] :
        p \in {NULL, "file:///Volumes/Backup-A/"}, f \in BOOLEAN, s \in BOOLEAN,
        o \in {0, 501, 4242}, l \in BOOLEAN, c \in BOOLEAN, n \in MountNames }

VolumeNameInputs ==
    { [BaseVolume EXCEPT !.mntonname = n, !.local = l] : n \in MountNames, l \in BOOLEAN }

(***************************************************************************)
(* The calls.  `last` holds the call just made until the caller has taken  *)
(* its result (Return); a call is made when no result is pending.          *)
(***************************************************************************)
Idle == [op |-> "idle"]

Put(f, k, v) == [x \in DOMAIN f \cup {k} |-> IF x = k THEN v ELSE f[x]]

Remove(f, k) == [x \in DOMAIN f \ {k} |-> f[x]]

Init ==
    /\ disks = <<>>
    /\ refs = [o \in RegistryObjects |-> IF o \in Media THEN 1 ELSE 0]
    /\ iterators = 0
    /\ bags = 0
    /\ last = Idle

Return ==
    /\ last.op # "idle"
    /\ last' = Idle
    /\ UNCHANGED <<disks, refs, iterators, bags>>

CallDADiskCreateFromIOMedia(slot, io) ==
    /\ last.op = "idle"
    /\ slot \notin DOMAIN disks
    /\ refs[io.media] > 0
    /\ LET out == DADiskCreateFromIOMediaRun(refs, iterators, bags, io)
       IN  /\ disks' = IF out.disk = <<>> THEN disks ELSE Put(disks, slot, out.disk[1])
           /\ refs' = out.refs
           /\ iterators' = out.iterators
           /\ bags' = out.bags
           /\ last' = [ op |-> "DADiskCreateFromIOMedia", slot |-> slot, io |-> io,
                        result |-> IF out.disk = <<>> THEN <<>> ELSE <<slot>>,
                        before |-> [refs |-> refs, iterators |-> iterators, bags |-> bags],
                        errors |-> out.errors, usedFailed |-> out.usedFailed, log |-> out.log ]

CallDADiskCreateFromVolumePath(slot, v) ==
    /\ last.op = "idle"
    /\ slot \notin DOMAIN disks
    /\ LET out == DADiskCreateFromVolumePathRun(v)
       IN  /\ disks' = IF out.disk = <<>> THEN disks ELSE Put(disks, slot, out.disk[1])
           /\ last' = [ op |-> "DADiskCreateFromVolumePath", slot |-> slot, v |-> v,
                        result |-> IF out.disk = <<>> THEN <<>> ELSE <<slot>>,
                        buffers |-> out.buffers, log |-> out.log ]
    /\ UNCHANGED <<refs, iterators, bags>>

\* CFRelease of the last reference on the disk: __DADiskDeallocate runs
CallCFRelease(slot) ==
    /\ last.op = "idle"
    /\ slot \in DOMAIN disks
    /\ refs' = __DADiskDeallocate(refs, disks[slot])
    /\ disks' = Remove(disks, slot)
    /\ last' = [op |-> "CFRelease", slot |-> slot, before |-> [refs |-> refs, disk |-> disks[slot]]]
    /\ UNCHANGED <<iterators, bags>>

\* a call that changes nothing but the struct of one disk
Update(slot, op, args, disk) ==
    /\ disks' = [disks EXCEPT ![slot] = disk]
    /\ last' = [op |-> op, slot |-> slot, args |-> args, before |-> disks[slot]]
    /\ UNCHANGED <<refs, iterators, bags>>

CallDADiskSetDescription(slot, description, value) ==
    /\ last.op = "idle"
    /\ slot \in DOMAIN disks
    /\ Update(slot, "DADiskSetDescription", <<description, value>>, DADiskSetDescription(disks[slot], description, value))

CallDADiskGetSerialization(slot) ==
    /\ last.op = "idle"
    /\ slot \in DOMAIN disks
    /\ disks' = [disks EXCEPT ![slot] = DADiskGetSerialization(@)]
    /\ last' = [ op |-> "DADiskGetSerialization", slot |-> slot, before |-> disks[slot],
                 result |-> DADiskGetSerialization(disks[slot])._serialization ]
    /\ UNCHANGED <<refs, iterators, bags>>

CallDADiskMatch(slot, match, order) ==
    /\ last.op = "idle"
    /\ slot \in DOMAIN disks
    /\ last' = [ op |-> "DADiskMatch", slot |-> slot, before |-> disks[slot],
                 match |-> match, order |-> order,
                 result |-> DADiskMatch(disks[slot], match, order).result,
                 asked |-> DADiskMatch(disks[slot], match, order).asked ]
    /\ UNCHANGED <<disks, refs, iterators, bags>>

\* CFEqual( disk1, disk2 ), CFHash( disk1 ) and CFHash( disk2 ), as a CFSet or CFArray of disks makes them
CallCFEqual(slot1, slot2) ==
    /\ last.op = "idle"
    /\ slot1 \in DOMAIN disks
    /\ slot2 \in DOMAIN disks
    /\ last' = [ op |-> "CFEqual", slot1 |-> slot1, slot2 |-> slot2,
                 equal |-> __DADiskEqual(disks[slot1], disks[slot2]),
                 hash1 |-> __DADiskHash(disks[slot1]),
                 hash2 |-> __DADiskHash(disks[slot2]) ]
    /\ UNCHANGED <<disks, refs, iterators, bags>>

CallDADiskSetBypath(slot, bypath) ==
    /\ last.op = "idle"
    /\ slot \in DOMAIN disks
    /\ Update(slot, "DADiskSetBypath", <<bypath>>, DADiskSetBypath(disks[slot], bypath))

CallDADiskSetClaim(slot, claim) ==
    /\ last.op = "idle"
    /\ slot \in DOMAIN disks
    /\ Update(slot, "DADiskSetClaim", <<claim>>, DADiskSetClaim(disks[slot], claim))

CallDADiskSetContext(slot, context) ==
    /\ last.op = "idle"
    /\ slot \in DOMAIN disks
    /\ Update(slot, "DADiskSetContext", <<context>>, DADiskSetContext(disks[slot], context))

CallDADiskSetContextRe(slot, context) ==
    /\ last.op = "idle"
    /\ slot \in DOMAIN disks
    /\ Update(slot, "DADiskSetContextRe", <<context>>, DADiskSetContextRe(disks[slot], context))

CallDADiskSetFileSystem(slot, filesystem) ==
    /\ last.op = "idle"
    /\ slot \in DOMAIN disks
    /\ Update(slot, "DADiskSetFileSystem", <<filesystem>>, DADiskSetFileSystem(disks[slot], filesystem))

CallDADiskSetOptions(slot, options, value) ==
    /\ last.op = "idle"
    /\ slot \in DOMAIN disks
    /\ Update(slot, "DADiskSetOptions", <<options, value>>, DADiskSetOptions(disks[slot], options, value))

CallDADiskSetOption(slot, option, value) ==
    /\ last.op = "idle"
    /\ slot \in DOMAIN disks
    /\ Update(slot, "DADiskSetOption", <<option, value>>, DADiskSetOption(disks[slot], option, value))

CallDADiskSetState(slot, state, value) ==
    /\ last.op = "idle"
    /\ slot \in DOMAIN disks
    /\ Update(slot, "DADiskSetState", <<state, value>>, DADiskSetState(disks[slot], state, value))

CallDADiskSetUserEGID(slot, userGID) ==
    /\ last.op = "idle"
    /\ slot \in DOMAIN disks
    /\ Update(slot, "DADiskSetUserEGID", <<userGID>>, DADiskSetUserEGID(disks[slot], userGID))

CallDADiskSetUserEUID(slot, userUID) ==
    /\ last.op = "idle"
    /\ slot \in DOMAIN disks
    /\ Update(slot, "DADiskSetUserEUID", <<userUID>>, DADiskSetUserEUID(disks[slot], userUID))

(***************************************************************************)
(* SpecBuild: one disk at a time, built from a registry with faults, with  *)
(* every ownership, hint and optional-fact combination, and destroyed.     *)
(***************************************************************************)
BuildInputs == FaultInputs \cup OwnerInputs \cup HintInputs \cup OptionalInputs

NextBuild ==
    \/ \E io \in BuildInputs : CallDADiskCreateFromIOMedia(1, io)
    \/ CallCFRelease(1)
    \/ Return

SpecBuild == Init /\ [][NextBuild]_vars

(***************************************************************************)
(* Spec: the life of one disk, from either builder, under every setter,    *)
(* DADiskGetSerialization and DADiskMatch.                                 *)
(***************************************************************************)
LifeInputs == { [BaseIO EXCEPT !.removable = r] : r \in {kCFBooleanTrue, kCFBooleanFalse} }

LifeVolumes == { [BaseVolume EXCEPT !.statfs = s] : s \in BOOLEAN }

\* the values the setters of a pointer are handed
Pointers == {NULL, "object"}

NextLife ==
    \/ \E io \in LifeInputs : CallDADiskCreateFromIOMedia(1, io)
    \/ \E v \in LifeVolumes : CallDADiskCreateFromVolumePath(1, v)
    \/ CallCFRelease(1)
    \/ \E value \in {<<>>, <<"Untitled">>, <<"Backup">>} :
           CallDADiskSetDescription(1, "DAVolumeName", value)
    \/ CallDADiskGetSerialization(1)
    \/ \E match \in {<<>>, [k \in {"DAVolumeName"} |-> "Untitled"]} :
           CallDADiskMatch(1, match, IF match = <<>> THEN <<>> ELSE <<"DAVolumeName">>)
    \/ \E p \in Pointers : CallDADiskSetBypath(1, p)
    \/ \E p \in Pointers : CallDADiskSetClaim(1, p)
    \/ \E p \in Pointers : CallDADiskSetContext(1, p)
    \/ \E p \in Pointers : CallDADiskSetContextRe(1, p)
    \/ \E p \in Pointers : CallDADiskSetFileSystem(1, p)
    \/ \E value \in BOOLEAN :
           CallDADiskSetOptions(1, {"kDADiskOptionMountAutomatic", "kDADiskOptionEjectUponLogout"}, value)
    \/ \E value \in BOOLEAN : CallDADiskSetOption(1, "kDADiskOptionEjectUponLogout", value)
    \/ \E state \in {{"kDADiskStateStagedProbe"}, {"kDADiskStateStagedMount", "kDADiskStateCommandActive"}},
          value \in BOOLEAN : CallDADiskSetState(1, state, value)
    \/ CallDADiskSetUserEGID(1, 20)
    \/ CallDADiskSetUserEUID(1, 501)
    \/ Return

Spec == Init /\ [][NextLife]_vars

(***************************************************************************)
(* SpecMatch: one disk, its description written, matched against every     *)
(* criteria dictionary of at most MaxCriteria keys, visited in every order.*)
(***************************************************************************)
MatchKeys == {"DAVolumeName", "DAMediaWhole", "DAVolumeMountable", "IOPropertyMatch"}

MatchValues == {kCFBooleanTrue, "Untitled", "IOMedia: Whole = Yes", "IOMedia: Whole = No"}

\* the criteria dictionaries of at most n keys
RECURSIVE Criteria(_)
Criteria(n) ==
    IF n = 0 THEN {<<>>}
    ELSE LET smaller == Criteria(n - 1)
         IN  smaller \cup {Put(m, k, v) : m \in smaller, k \in MatchKeys, v \in MatchValues}

\* the orders in which the keys of a dictionary can be visited
Orders(keys) ==
    { order \in [1..Cardinality(keys) -> keys] : \A i, j \in DOMAIN order : i # j => order[i] # order[j] }

NextMatch ==
    \/ CallDADiskCreateFromIOMedia(1, BaseIO)
    \/ CallDADiskCreateFromVolumePath(1, BaseVolume)
    \/ CallCFRelease(1)
    \/ \E key \in {"DAVolumeName", "IOPropertyMatch"},
          value \in {<<>>, <<"Untitled">>, <<"IOMedia: Whole = Yes">>} :
           CallDADiskSetDescription(1, key, value)
    \/ \E match \in Criteria(MaxCriteria) :
           \E order \in Orders(DOMAIN match) : CallDADiskMatch(1, match, order)
    \/ Return

SpecMatch == Init /\ [][NextMatch]_vars

(***************************************************************************)
(* SpecIdentity: two disks, from either builder, with ids that agree or    *)
(* differ within and beyond the first HashBytes bytes, compared and hashed.*)
(***************************************************************************)
Slots == {1, 2}

NextIdentity ==
    \/ \E slot \in Slots, io \in NameInputs : CallDADiskCreateFromIOMedia(slot, io)
    \/ \E slot \in Slots, v \in VolumeNameInputs : CallDADiskCreateFromVolumePath(slot, v)
    \/ \E slot \in Slots : CallCFRelease(slot)
    \/ \E slot \in Slots : CallDADiskSetState(slot, {"kDADiskStateStagedProbe"}, TRUE)
    \/ \E slot1 \in Slots, slot2 \in Slots : CallCFEqual(slot1, slot2)
    \/ Return

SpecIdentity == Init /\ [][NextIdentity]_vars

(***************************************************************************)
(* SpecVolume: DADiskCreateFromVolumePath on every input, and the disk it  *)
(* returns released or handed a new effective user.                        *)
(***************************************************************************)
NextVolume ==
    \/ \E v \in VolumeInputs : CallDADiskCreateFromVolumePath(1, v)
    \/ CallCFRelease(1)
    \/ CallDADiskSetUserEGID(1, 20)
    \/ CallDADiskSetUserEUID(1, 501)
    \/ Return

SpecVolume == Init /\ [][NextVolume]_vars

(***************************************************************************)
(* The properties.                                                         *)
(***************************************************************************)

\* C1: the serialization cache of every disk is absent or is the encoding of
\* the disk's current description, and DADiskGetSerialization returns the
\* encoding of the current description.
C1_CacheIsCurrent ==
    /\ \A slot \in DOMAIN disks :
          \/ disks[slot]._serialization = <<>>
          \/ disks[slot]._serialization = << _DASerializeDiskDescription(disks[slot]._description) >>
    /\ last.op = "DADiskGetSerialization" =>
          last.result = << _DASerializeDiskDescription(disks[last.slot]._description) >>

\* C1 happens: a serialization is fetched of a description that DADiskSetDescription has written
C1_Witness ==
    /\ last.op = "DADiskGetSerialization"
    /\ "DAVolumeName" \in DOMAIN disks[last.slot]._description
    /\ \E i \in DOMAIN last.result[1] : last.result[1][i] = <<"DAVolumeName", "Backup">>

\* C2: the equality callback answers TRUE exactly when the two ids are the same string
C2_EqualIffSameId ==
    last.op = "CFEqual" =>
        (last.equal <=> disks[last.slot1]._id = disks[last.slot2]._id)

\* C2 happens: two disks of one id that differ in description and state are equal
C2_Witness ==
    /\ last.op = "CFEqual"
    /\ last.slot1 # last.slot2
    /\ last.equal
    /\ disks[last.slot1]._state # disks[last.slot2]._state
    /\ disks[last.slot1]._description # disks[last.slot2]._description

\* C3: two disks whose ids agree on the first HashBytes bytes (on the whole id when
\* it is shorter) have the same hash; so have two disks that are equal
C3_HashOfPrefix ==
    last.op = "CFEqual" =>
        LET id1 == disks[last.slot1]._id
            id2 == disks[last.slot2]._id
        IN  /\ SubSeq(id1, 1, MIN(Len(id1), HashBytes)) = SubSeq(id2, 1, MIN(Len(id2), HashBytes))
                  => last.hash1 = last.hash2
            /\ last.equal => last.hash1 = last.hash2

\* C3 happens: two disks whose ids differ only past the first HashBytes bytes are hashed
C3_Witness ==
    /\ last.op = "CFEqual"
    /\ ~last.equal
    /\ Len(disks[last.slot1]._id) > HashBytes
    /\ Len(disks[last.slot2]._id) > HashBytes
    /\ last.hash1 = last.hash2

\* C4: for criteria without the hardware-property-match key, DADiskMatch is TRUE exactly
\* when every key of the criteria is in the description with an equal value, in
\* whatever order the keys are visited
C4_MatchIffAllKeysEqual ==
    (last.op = "DADiskMatch" /\ "IOPropertyMatch" \notin DOMAIN last.match) =>
        LET d == disks[last.slot]._description
        IN  last.result <=> \A k \in DOMAIN last.match : k \in DOMAIN d /\ d[k] = last.match[k]

\* C4 happens: criteria of two keys are matched against a description that has both
C4_Witness ==
    /\ last.op = "DADiskMatch"
    /\ "IOPropertyMatch" \notin DOMAIN last.match
    /\ Cardinality(DOMAIN last.match) = 2
    /\ last.result

\* C5 (as claimed): for criteria with the hardware-property-match key, the registry is
\* asked once, about the criteria's value of that key, and DADiskMatch is TRUE only
\* if the registry matches the media against that value
C5_RegistryAskedAboutCriteria ==
    (last.op = "DADiskMatch" /\ "IOPropertyMatch" \in DOMAIN last.match) =>
        /\ last.asked = << <<last.match["IOPropertyMatch"]>> >>
        /\ last.result =>
              IOServiceMatchPropertyTable(disks[last.slot]._media, <<last.match["IOPropertyMatch"]>>)

\* a fact the construction cannot do without is missing from the input
RequiredFactMissing(io) ==
    \/ io.faults \cap (RequiredMediaKeys \cup {"IOMediaIcon", "IOBlockStorageDevice"}) # {}
    \/ "Type" \in io.faults /\ io.kind \in {"IODVDMedia", "IOCDMedia"}
    \/ {"UTF8(name)", "MacRoman(name)"} \subseteq io.faults
    \/ {"UTF8(path)", "MacRoman(path)"} \subseteq io.faults
    \/ io.faults \cap {"CFStringGetCString(BSD Name)", "__DADiskCreate",
                       "CFURLCreateFromFileSystemRepresentation", "UTF8(device path)",
                       "CFNumberCreate(time)"} # {}
    \/ "CFDataCreate(GUID)" \in io.faults /\ "GUID" \in io.optional
    \/ io.faults \cap {"UTF8(bus name)", "UTF8(bus path)"} # {} /\ "bus" \in io.optional

\* the last call was DADiskCreateFromIOMedia and it returned a disk
Created == last.op = "DADiskCreateFromIOMedia" /\ last.result # <<>>

\* C6: when a required fact is missing and every registry query answers,
\* DADiskCreateFromIOMedia returns NULL, no disk comes to exist, and the reference
\* counts of the registry objects, the iterators and the property bags are what
\* they were before the call
C6_MissingFactReleasesAll ==
    (/\ last.op = "DADiskCreateFromIOMedia"
     /\ RequiredFactMissing(last.io)
     /\ last.io.faults \cap QueryErrors = {}) =>
        /\ last.result = <<>>
        /\ last.slot \notin DOMAIN disks
        /\ refs = last.before.refs
        /\ iterators = last.before.iterators
        /\ bags = last.before.bags

\* C6 happens: the path of the device cannot be converted, which is found out while
\* the media is retained and the device and its properties are held
C6_Witness ==
    /\ last.op = "DADiskCreateFromIOMedia"
    /\ last.io.faults = {"UTF8(device path)"}
    /\ last.result = <<>>
    /\ refs = last.before.refs

\* C7 (as claimed): when a registry query reports an error the construction returns
\* NULL and no call is made on the output of the query that failed
C7_QueryErrorAborts ==
    (last.op = "DADiskCreateFromIOMedia" /\ last.errors # {}) =>
        /\ last.result = <<>>
        /\ last.usedFailed = {}

\* C8 (as claimed): every failed construction is reported, with the path of the media
\* in the registry when it can be read and with no id when it cannot
C8_FailureReported ==
    (last.op = "DADiskCreateFromIOMedia" /\ last.result = <<>>) =>
        /\ Len(last.log) = 1
        /\ last.log[1].id =
              IF "IORegistryEntryGetPath(media,IOService)" \in last.io.faults THEN <<>>
              ELSE << IORegistryEntryGetPath(last.io, IOServicePlane) >>

\* C9: a disk built without an owner-uid hint has the real user and group unknown when
\* the media is removable or the device is external, either alone, has them root and
\* admin when the media is not removable and the device is internal, and has the
\* effective user and group root and admin in all of these
C9_OwnerDefault ==
    (Created /\ last.io.ownerUid = <<>>) =>
        LET disk      == disks[last.slot]
            d         == disk._description
            removable == d["DAMediaRemovable"] = kCFBooleanTrue
            external  == "DADeviceInternal" \in DOMAIN d /\ d["DADeviceInternal"] = kCFBooleanFalse
            internal  == "DADeviceInternal" \in DOMAIN d /\ d["DADeviceInternal"] = kCFBooleanTrue
        IN  /\ (removable \/ external) =>
                  disk._userRUID = ___UID_UNKNOWN /\ disk._userRGID = ___GID_UNKNOWN
            /\ (~removable /\ internal) =>
                  disk._userRUID = ___UID_ROOT /\ disk._userRGID = ___GID_ADMIN
            /\ disk._userEUID = ___UID_ROOT /\ disk._userEGID = ___GID_ADMIN
            /\ removable <=> last.io.removable = kCFBooleanTrue
            /\ external <=> ("Protocol Characteristics" \in last.io.optional /\ last.io.location = "External")

\* C9 happens: removable media on a device whose location is not told
C9_Witness ==
    /\ Created
    /\ last.io.ownerUid = <<>>
    /\ last.io.removable = kCFBooleanTrue
    /\ "DADeviceInternal" \notin DOMAIN disks[last.slot]._description
    /\ disks[last.slot]._userRUID = ___UID_UNKNOWN

\* what OwnerDefault leaves in the real user of a disk
DefaultRUID(disk) ==
    LET d == disk._description
    IN  IF \/ d["DAMediaRemovable"] = kCFBooleanTrue
           \/ "DADeviceInternal" \in DOMAIN d /\ d["DADeviceInternal"] = kCFBooleanFalse
        THEN ___UID_UNKNOWN ELSE ___UID_ROOT

\* C10: when the owner-uid hint names a user the password database knows, the real and
\* the effective user and group of the disk built are that user's; when the database
\* does not know the user, the disk keeps the owners the earlier steps gave it
C10_HintOverridesWhenResolved ==
    (Created /\ last.io.ownerUid # <<>>) =>
        LET disk == disks[last.slot]
            user == getpwuid(last.io.ownerUid[1])
        IN  IF user # <<>>
            THEN /\ disk._userRUID = last.io.ownerUid[1] /\ disk._userEUID = last.io.ownerUid[1]
                 /\ disk._userRGID = user[1].pw_gid /\ disk._userEGID = user[1].pw_gid
            ELSE /\ disk._userEUID = ___UID_ROOT /\ disk._userEGID = ___GID_ADMIN
                 /\ disk._userRUID = DefaultRUID(disk)
                 /\ disk._userRGID = IF DefaultRUID(disk) = ___UID_ROOT THEN ___GID_ADMIN ELSE ___GID_UNKNOWN

\* C10 happens: removable media under a hint that names a known user
C10_Witness ==
    /\ Created
    /\ last.io.ownerUid = <<501>>
    /\ last.io.removable = kCFBooleanTrue
    /\ disks[last.slot]._userRUID = 501
    /\ disks[last.slot]._userEUID = 501

\* C10 (as claimed): whenever the hint is present the real and the effective user of
\* the disk built are the hinted one
C10_HintAlwaysOverrides ==
    (Created /\ last.io.ownerUid # <<>>) =>
        /\ disks[last.slot]._userRUID = last.io.ownerUid[1]
        /\ disks[last.slot]._userEUID = last.io.ownerUid[1]

\* C11: on a disk DADiskCreateFromIOMedia has built, MountAutomatic is set unless the
\* autodiskmount hint is present and false, MountAutomaticNoDefer is set exactly when
\* that hint is present and true, EjectUponLogout is set exactly when the
\* eject-upon-logout hint is true, and no other option is set
C11_OptionsFromHints ==
    Created =>
        LET options == disks[last.slot]._options
            io      == last.io
        IN  /\ "kDADiskOptionMountAutomatic" \in options <=> io.autodiskmount # kCFBooleanFalse
            /\ "kDADiskOptionMountAutomaticNoDefer" \in options <=> io.autodiskmount = kCFBooleanTrue
            /\ "kDADiskOptionEjectUponLogout" \in options <=> io.ejectUponLogout = kCFBooleanTrue
            /\ options \subseteq {"kDADiskOptionMountAutomatic", "kDADiskOptionMountAutomaticNoDefer",
                                  "kDADiskOptionEjectUponLogout"}

\* C11 happens: a disk is built under an autodiskmount hint that is false and an
\* eject-upon-logout hint that is true
C11_Witness ==
    /\ Created
    /\ last.io.autodiskmount = kCFBooleanFalse
    /\ last.io.ejectUponLogout = kCFBooleanTrue
    /\ disks[last.slot]._options = {"kDADiskOptionEjectUponLogout"}

\* C12: when nothing the construction requires is missing and no call fails,
\* DADiskCreateFromIOMedia returns a disk whichever of the optional facts (the unit
\* and the GUID of the device, the bus) are there, and the description has the unit,
\* the GUID, the bus name and the bus path exactly when the fact is there
C12_OptionalFactsMayBeAbsent ==
    (last.op = "DADiskCreateFromIOMedia" /\ last.io.faults = {}) =>
        /\ last.result # <<>>
        /\ LET d == disks[last.slot]._description
               o == last.io.optional
           IN  /\ "DADeviceUnit" \in DOMAIN d <=> "IOUnit" \in o
               /\ "DADeviceGUID" \in DOMAIN d <=> "GUID" \in o
               /\ "DABusName" \in DOMAIN d <=> "bus" \in o
               /\ "DABusPath" \in DOMAIN d <=> "bus" \in o

\* C12 happens: a disk is built of a device that has no unit, no GUID and no bus
C12_Witness ==
    /\ Created
    /\ last.io.faults = {}
    /\ last.io.optional \cap {"IOUnit", "GUID", "bus"} = {}
    /\ DOMAIN disks[last.slot]._description
           \cap {"DADeviceUnit", "DADeviceGUID", "DABusName", "DABusPath"} = {}
    /\ "DAMediaSize" \in DOMAIN disks[last.slot]._description

\* the last call was DADiskCreateFromVolumePath and it returned a disk
Mounted == last.op = "DADiskCreateFromVolumePath" /\ last.result # <<>>

\* C13: DADiskCreateFromVolumePath returns NULL, logs nothing and leaves no disk and no
\* path buffer behind when the path is NULL, has no file system representation or
\* has no mount statistics; a disk it returns is of a path whose statistics were had,
\* and its id is the f_mntonname of the statistics
C13_VolumePathOrNull ==
    last.op = "DADiskCreateFromVolumePath" =>
        /\ (last.v.path = NULL \/ ~last.v.fsrep \/ ~last.v.statfs) =>
              /\ last.result = <<>>
              /\ last.slot \notin DOMAIN disks
        /\ last.log = <<>>
        /\ last.buffers = 0
        /\ last.result # <<>> =>
              /\ last.v.path # NULL /\ last.v.fsrep /\ last.v.statfs
              /\ disks[last.slot]._id = last.v.mntonname

\* C13 happens: the path has a file system representation and no mount statistics
C13_Witness ==
    /\ last.op = "DADiskCreateFromVolumePath"
    /\ last.v.path # NULL /\ last.v.fsrep /\ ~last.v.statfs
    /\ last.result = <<>>
    /\ last.buffers = 0

\* C15: a disk DADiskCreateFromVolumePath returns has the real and the effective user
\* and group of the owner of the mount when the password database knows the owner,
\* and root and admin for all four when it does not; in neither case are the real
\* ones made unknown
C15_VolumeOwner ==
    Mounted =>
        LET disk == disks[last.slot]
            user == getpwuid(last.v.owner)
        IN  /\ user # <<>> =>
                  /\ disk._userRUID = user[1].pw_uid /\ disk._userEUID = user[1].pw_uid
                  /\ disk._userRGID = user[1].pw_gid /\ disk._userEGID = user[1].pw_gid
            /\ user = <<>> =>
                  /\ disk._userRUID = ___UID_ROOT /\ disk._userEUID = ___UID_ROOT
                  /\ disk._userRGID = ___GID_ADMIN /\ disk._userEGID = ___GID_ADMIN
            /\ disk._userRUID # ___UID_UNKNOWN
            /\ disk._userRGID # ___GID_UNKNOWN

\* C15 happens: a network mount whose owner is a user the database knows
C15_Witness ==
    /\ Mounted
    /\ last.v.owner = 501
    /\ ~last.v.local
    /\ disks[last.slot]._userRUID = 501
    /\ disks[last.slot]._userRGID = 20
    /\ disks[last.slot]._userEGID = 20

\* the calls on a live disk that are no builder: `last` holds the disk as it was
Setters ==
    { "DADiskSetDescription", "DADiskSetBypath", "DADiskSetClaim", "DADiskSetContext",
      "DADiskSetContextRe", "DADiskSetFileSystem", "DADiskSetOptions", "DADiskSetOption",
      "DADiskSetState", "DADiskSetUserEGID", "DADiskSetUserEUID" }

Operations == Setters \cup {"DADiskGetSerialization", "DADiskMatch"}

\* C14: a disk from DADiskCreateFromVolumePath has the six staging flags set, a disk
\* from DADiskCreateFromIOMedia has the six clear, and a later call changes a staging
\* flag only when it is DADiskSetState and the flag is in its mask
C14_StagingFromBuilder ==
    LET six == { "kDADiskStateStagedProbe", "kDADiskStateStagedPeek", "kDADiskStateStagedRepair",
                 "kDADiskStateStagedApprove", "kDADiskStateStagedAuthorize", "kDADiskStateStagedMount" }
    IN  /\ Mounted => six \subseteq disks[last.slot]._state
        /\ Created => six \cap disks[last.slot]._state = {}
        /\ last.op \in Operations =>
              \A flag \in six :
                  (flag \in disks[last.slot]._state) # (flag \in last.before._state)
                      => last.op = "DADiskSetState" /\ flag \in last.args[1]

\* C14 happens: StagedProbe is cleared on a disk of a volume, whose other five flags stay
C14_Witness ==
    /\ last.op = "DADiskSetState"
    /\ last.args = <<{"kDADiskStateStagedProbe"}, FALSE>>
    /\ StagedStates \subseteq last.before._state
    /\ disks[last.slot]._state \cap StagedStates = StagedStates \ {"kDADiskStateStagedProbe"}

\* C16: the id of a disk is not the empty string when a builder returns the disk, and
\* no setter, DADiskGetSerialization or DADiskMatch changes it
C16_IdIsKept ==
    /\ (Created \/ Mounted) => strlen(disks[last.slot]._id) > 0
    /\ last.op \in Operations =>
          /\ disks[last.slot]._id = last.before._id
          /\ strlen(disks[last.slot]._id) > 0

\* C16 happens: the bypath of a disk of hardware is replaced and the id is what it was
C16_Witness ==
    /\ last.op = "DADiskSetBypath"
    /\ last.before._bypath # disks[last.slot]._bypath
    /\ disks[last.slot]._media # NULL
    /\ disks[last.slot]._id = last.before._id
    /\ \A slot \in DOMAIN disks : "DAVolumeName" \in DOMAIN disks[slot]._description

\* what setting (value TRUE) or clearing (value FALSE) the flags of `mask` makes of `word`
Masked(word, mask, value) == IF value THEN word \cup mask ELSE word \ mask

\* C17: DADiskSetState sets or clears exactly the state flags of its mask and leaves the
\* options alone; DADiskSetOptions and DADiskSetOption set or clear exactly the option
\* flags of theirs and leave the state alone; a call that clears sets no flag
C17_FlagsIndependent ==
    LET disk == disks[last.slot]
    IN  /\ last.op = "DADiskSetState" =>
              /\ disk._state = Masked(last.before._state, last.args[1], last.args[2])
              /\ disk._options = last.before._options
        /\ last.op = "DADiskSetOptions" =>
              /\ disk._options = Masked(last.before._options, last.args[1], last.args[2])
              /\ disk._state = last.before._state
        /\ last.op = "DADiskSetOption" =>
              /\ disk._options = Masked(last.before._options, {last.args[1]}, last.args[2])
              /\ disk._state = last.before._state
        /\ (last.op \in {"DADiskSetState", "DADiskSetOptions", "DADiskSetOption"} /\ ~last.args[2]) =>
              /\ disk._state \subseteq last.before._state
              /\ disk._options \subseteq last.before._options

\* C17 happens: EjectUponLogout is cleared on a disk that has it, has MountAutomatic
\* and has state flags
C17_Witness ==
    /\ last.op = "DADiskSetOption"
    /\ last.args = <<"kDADiskOptionEjectUponLogout", FALSE>>
    /\ "kDADiskOptionEjectUponLogout" \in last.before._options
    /\ disks[last.slot]._options = {"kDADiskOptionMountAutomatic"}
    /\ "kDADiskStateCommandActive" \in disks[last.slot]._state

\* C18: no setter, DADiskGetSerialization or DADiskMatch changes the real user, the real
\* group or the mode of a disk; DADiskSetUserEUID changes the effective user and nothing
\* else, DADiskSetUserEGID the effective group and nothing else, and no other call
\* changes either
C18_OnlyEffectiveChanges ==
    last.op \in Operations =>
        LET disk == disks[last.slot]
        IN  /\ disk._userRUID = last.before._userRUID
            /\ disk._userRGID = last.before._userRGID
            /\ disk._mode = last.before._mode
            /\ last.op = "DADiskSetUserEUID" => disk = [last.before EXCEPT !._userEUID = last.args[1]]
            /\ last.op = "DADiskSetUserEGID" => disk = [last.before EXCEPT !._userEGID = last.args[1]]
            /\ last.op \notin {"DADiskSetUserEUID", "DADiskSetUserEGID"} =>
                  /\ disk._userEUID = last.before._userEUID
                  /\ disk._userEGID = last.before._userEGID

\* C18 happens: the effective user of a disk of removable media becomes 501 and its
\* real user stays unknown
C18_Witness ==
    /\ last.op = "DADiskSetUserEUID"
    /\ last.before._userEUID = ___UID_ROOT
    /\ disks[last.slot]._userEUID = 501
    /\ disks[last.slot]._userRUID = ___UID_UNKNOWN
    /\ disks[last.slot]._userEGID = ___GID_ADMIN
    /\ disks[last.slot]._mode = DefaultMode

\* the input makes IOObjectRelease( services ) fall on the media: the iterator of the
\* parents of the media is not made and `services` holds the port of the media
StrayRelease(io) ==
    "IORegistryEntryCreateIterator(media)" \in io.faults /\ io.uninit \in Media

C20_CacheSurvives ==
    /\ last.op \in (Operations \ {"DADiskSetDescription", "DADiskGetSerialization"}) =>
          /\ disks[last.slot]._description = last.before._description
          /\ disks[last.slot]._serialization = last.before._serialization
    /\ (last.op = "DADiskGetSerialization" /\ last.before._serialization # <<>>) =>
          /\ last.result = last.before._serialization
          /\ disks[last.slot] = last.before

\* C20 happens: a disk with a cached serialization is claimed and the cache is there after
C20_Witness ==
    /\ last.op = "DADiskSetClaim"
    /\ last.before._claim # disks[last.slot]._claim
    /\ last.before._serialization # <<>>
    /\ disks[last.slot]._serialization = last.before._serialization

====
